---- MODULE Spec2Model ----
(***************************************************************************)
(* mysql2-handler: the transactional handler (handler / getConnection),    *)
(* the error classes (DbError, PoolError, isDbError), the CRUD facade      *)
(* built on it (find, findOne, save, saveMany, update, _delete), its        *)
(* condition builder (getCondition) and its mapper (transfers).            *)
(*                                                                         *)
(* The handler modelled is the one with the useTransaction flag, which the *)
(* facade passes; the variant without that flag always begins.             *)
(*                                                                         *)
(* handler is an async function: a caller may invoke it again while an     *)
(* earlier invocation is waiting at one of its awaits.  The invocations in *)
(* flight share the pool of PoolSize connections and the table; each has   *)
(* its own connection, position, event log and outcome.  Every await of    *)
(* the handler (pool.getConnection, beginTransaction, the callback,        *)
(* commit, rollback) is one step of one invocation whose outcome (resolve  *)
(* or reject) is chosen by the environment, and the steps of the           *)
(* invocations in flight interleave.                                       *)
(*                                                                         *)
(* The server fixes the rows an UPDATE or DELETE applies to when the       *)
(* statement is executed.  It applies a statement to the table at once on  *)
(* a connection without a transaction, at the commit on one with a         *)
(* transaction; the statements of a transaction that is not committed are  *)
(* not applied.                                                            *)
(*                                                                         *)
(* Spec is the handler called directly; SpecPools is the same under pools  *)
(* that differ in the password; SpecFacade is the whole facade against a   *)
(* table whose rows the server selects by the condition; SpecCondition and *)
(* SpecTransfers apply getCondition and the mapper to their arguments;     *)
(* SpecPackage is the constructors of the facade, with the invocation of   *)
(* the handler that crudPackage starts for checkValid and an operation the *)
(* caller starts on the facade it got.                                     *)
(***************************************************************************)
EXTENDS Integers, Sequences, FiniteSets

\* Number of connections of the pool (connectionLimit, read from the
\* environment; the model bounds it).
PoolSize == 2

\* Largest number of rows the table is let grow to: a caller starts an
\* INSERT only while the table, with the rows of the INSERT in flight, has
\* room for its rows.
MaxRows == 2

\* Largest number of setter objects handed to saveMany.
MaxBatch == 2

\* Largest number of entries of a predicate handed to getCondition alone.
MaxConditionEntries == 2

\* Largest number of keys (and of columns) handed to transfers.
MaxBindingLen == 2

\* Largest number of facade operations a caller starts on one facade.
MaxOperations == 1

\* The invocations that may be in flight together.  Called directly, each
\* is given any call of handler; through the facade, invocation "a" is
\* given any operation and invocation "b" the operations named as
\* overlapping ones.
Invocations == {"a", "b"}

\* pc, call, log, uow, caught, diag and outcome are functions of the
\* invocation; free, table and poolOption are shared.
VARIABLES
    pc,         \* position of each invocation
    call,       \* its inputs: operation, option argument, arguments
    log,        \* events on its connection, in order
    uow,        \* what its callback did: statements executed, value or error
    caught,     \* the error e of its catch block while rollback is awaited
    diag,       \* its console.error output
    outcome,    \* what its caller receives
    free,       \* connections currently in the pool
    table,      \* the rows of the bound table, in the order the server returns them
    poolOption  \* the options the pool was created with

vars == <<pc, call, log, uow, caught, diag, outcome, free, table, poolOption>>

----------------------------------------------------------------------------
\* The pool's options, read from the environment when the module is
\* loaded; of them the model keeps the password and the connection limit.

Passwords == {"hunter2", "swordfish"}

PoolOption(password) == [password |-> password, connectionLimit |-> PoolSize]

\* What console.error(poolOption) writes: the object with all its fields.
Inspect(option) ==
    IF option.password = "hunter2"
    THEN "{ password: 'hunter2', connectionLimit }"
    ELSE "{ password: 'swordfish', connectionLimit }"

----------------------------------------------------------------------------
\* Option flags.  A flag of an option object is true, false or not set;
\* JavaScript reads a flag that is not set as undefined.

Flag == {"true", "false", "unset"}

Truthy(f) == f = "true"

\* a ?? b
NullishOr(f, d) == IF f = "unset" THEN d ELSE f

\* The option argument as the caller passes it.  given = FALSE is a call
\* without the option argument.
OptionArgs ==
    [given : {TRUE}, throwError : Flag, printSqlError : Flag,
     rollbackIfError : Flag, useTransaction : Flag]

NoOption ==
    [given |-> FALSE, throwError |-> "unset", printSqlError |-> "unset",
     rollbackIfError |-> "unset", useTransaction |-> "unset"]

\* The default value of the option parameter: it replaces an absent
\* argument as a whole, and fills nothing in an object that is passed.
DefaultOption ==
    [given |-> TRUE, throwError |-> "true", printSqlError |-> "true",
     rollbackIfError |-> "true", useTransaction |-> "true"]

ResolveOption(arg) == IF arg.given THEN arg ELSE DefaultOption

----------------------------------------------------------------------------
\* Errors.  driver marks an error object carrying the driver's fields
\* (code, errno, sqlMessage, sqlState, index, sql); origin names the throw
\* site, so that two errors are the same object iff they are equal.

NoError == [cls |-> "none", driver |-> FALSE, origin |-> "none", message |-> ""]

DriverError(site) ==
    [cls |-> "Error", driver |-> TRUE, origin |-> site, message |-> site]

PlainError(site, msg) ==
    [cls |-> "Error", driver |-> FALSE, origin |-> site, message |-> msg]

\* new DbError(e): copies e's driver fields, which an error that is no
\* driver error does not have; its message is e.sqlMessage.
DbError(e) ==
    [cls |-> "DbError", driver |-> e.driver, origin |-> e.origin,
     message |-> IF e.driver THEN e.message ELSE ""]

PoolError(msg) ==
    [cls |-> "PoolError", driver |-> FALSE, origin |-> "pool", message |-> msg]

\* isDbError(error, strict): without strict every value is a DbError; with
\* strict the driver's fields must all be there.
isDbError(e, strict) == IF ~strict THEN TRUE ELSE e.driver

----------------------------------------------------------------------------
\* Values and outcomes.

Null == [t |-> "null"]
Response == [t |-> "response"]
NoValue == [t |-> "none"]

Pending == [kind |-> "pending", value |-> NoValue, error |-> NoError]
Return(v) == [kind |-> "return", value |-> v, error |-> NoError]
Raise(e) == [kind |-> "raise", value |-> NoValue, error |-> e]

\* Result of running a callback: the statements it executed on the
\* connection, the rows of the table they were executed on, the places in
\* the table of the rows an UPDATE or DELETE among them applies to, the
\* lines the callback wrote with console.error, and the value it resolves
\* with or the error it rejects with.  A callback of the model executes at
\* most one statement.
NoUow ==
    [ran |-> FALSE, ok |-> FALSE, value |-> NoValue, error |-> NoError,
     stmts |-> <<>>, seen |-> <<>>, hit |-> {}, printed |-> <<>>]
Resolved(v, ss) ==
    [ran |-> TRUE, ok |-> TRUE, value |-> v, error |-> NoError, stmts |-> ss,
     seen |-> <<>>, hit |-> {}, printed |-> <<>>]
Rejected(e, ss) ==
    [ran |-> TRUE, ok |-> FALSE, value |-> NoValue, error |-> e, stmts |-> ss,
     seen |-> <<>>, hit |-> {}, printed |-> <<>>]

----------------------------------------------------------------------------
\* The table binding of the facade: the Nth key names the Nth column.

Keys == <<"id", "name", "createdAt">>
Columns == <<"id", "name", "created_at">>

\* keys.indexOf(key)
IndexOf(key) == CHOOSE i \in 1..Len(Keys) : Keys[i] = key

\* JavaScript values of the entries of a query or setter object.
Undefined == [t |-> "undefined", s |-> "", items |-> <<>>]
Number(n) == [t |-> "number", s |-> n, items |-> <<>>]
String(x) == [t |-> "string", s |-> x, items |-> <<>>]
Array(xs) == [t |-> "array", s |-> "", items |-> xs]
Boolean(b) == [t |-> "boolean", s |-> b, items |-> <<>>]

\* The strings of the model that contain a "%".
LikePatterns == {"%a%"}
Includes(v, ch) == ch = "%" /\ v.s \in LikePatterns

QueryValues ==
    {Undefined, Number("1"), String("Ann"), String("%a%"), String("null"),
     String("not null"), Array(<<"1", "2">>), Array(<<>>)}

\* An object is the sequence of its entries in insertion order.
Entry(k, v) == [key |-> k, value |-> v]

KeySet == {Keys[i] : i \in 1..Len(Keys)}

DistinctKeys(obj) ==
    \A i, j \in 1..Len(obj) : obj[i].key = obj[j].key => i = j

ObjectsOver(values, n) ==
    {obj \in UNION {[1..m -> [key : KeySet, value : values]] : m \in 0..n} :
        DistinctKeys(obj)}

\* Object.keys(obj).length
Size(obj) == Len(obj)

\* obj[key]: undefined for a key the object does not have.
Get(obj, k) ==
    IF \E i \in 1..Len(obj) : obj[i].key = k
    THEN obj[CHOOSE i \in 1..Len(obj) : obj[i].key = k].value
    ELSE Undefined

IsDefined(e) == e.value.t # "undefined"

\* Variant of removeUndefined that deletes nothing.
removeUndefinedKeepingAll(obj) == obj

\* removeUndefined(obj): deletes every entry whose value is undefined.
removeUndefined(obj) == SelectSeq(obj, IsDefined)

\* A row is the sequence of its cells; a column the server returned NULL
\* for holds JavaScript's null.
SqlNull == [t |-> "null", s |-> "", items |-> <<>>]
Cell(c, v) == [column |-> c, value |-> v]

\* row[column]: undefined for a column the row does not have.
GetColumn(row, c) ==
    IF \E i \in 1..Len(row) : row[i].column = c
    THEN row[CHOOSE i \in 1..Len(row) : row[i].column = c].value
    ELSE Undefined

\* obj[k] = v: overwrites the entry of k in place, or adds it at the end.
Put(obj, k, v) ==
    IF \E i \in 1..Len(obj) : obj[i].key = k
    THEN [i \in 1..Len(obj) |-> IF obj[i].key = k THEN Entry(k, v) ELSE obj[i]]
    ELSE Append(obj, Entry(k, v))

\* row[c] = v
PutColumn(row, c, v) ==
    IF \E i \in 1..Len(row) : row[i].column = c
    THEN [i \in 1..Len(row) |-> IF row[i].column = c THEN Cell(c, v) ELSE row[i]]
    ELSE Append(row, Cell(c, v))

\* transfers(keys, columns).toObject(row): the loop
\* for (i < columns.length) obj[keys[i]] = row[columns[i]], after i rounds.
RECURSIVE ObjectFrom(_, _, _, _)
ObjectFrom(keys, columns, row, i) ==
    IF i = 0 THEN <<>>
    ELSE Put(ObjectFrom(keys, columns, row, i - 1),
             keys[i], GetColumn(row, columns[i]))

transfersToObject(keys, columns, row) ==
    ObjectFrom(keys, columns, row, Len(columns))

\* transfers(keys, columns).toRow(obj): the loop
\* for (i < keys.length) row[columns[i]] = obj[keys[i]], after i rounds.
RECURSIVE RowFrom(_, _, _, _)
RowFrom(keys, columns, obj, i) ==
    IF i = 0 THEN <<>>
    ELSE PutColumn(RowFrom(keys, columns, obj, i - 1),
                   columns[i], Get(obj, keys[i]))

\* Variant of toRow that writes each value under its key.
transfersToRowUnderKeys(keys, columns, obj) == RowFrom(keys, keys, obj, Len(keys))

transfersToRow(keys, columns, obj) == RowFrom(keys, columns, obj, Len(keys))

\* Variant of toPartialRow that skips every falsy value: if (!value) continue.
Falsy(v) ==
    \/ v.t \in {"undefined", "null"}
    \/ (v.t = "number" /\ v.s = "0")
    \/ (v.t = "string" /\ v.s = "")
    \/ (v.t = "boolean" /\ v.s = "false")

RECURSIVE TruthyRowFrom(_, _, _, _)
TruthyRowFrom(keys, columns, obj, i) ==
    IF i = 0 THEN <<>>
    ELSE IF Falsy(Get(obj, keys[i]))
    THEN TruthyRowFrom(keys, columns, obj, i - 1)
    ELSE PutColumn(TruthyRowFrom(keys, columns, obj, i - 1),
                   columns[i], Get(obj, keys[i]))

transfersToPartialRowOfTruthy(keys, columns, obj) ==
    TruthyRowFrom(keys, columns, obj, Len(keys))

\* transfers(keys, columns).toPartialRow(obj): the loop
\* for (i < keys.length) { if (obj[keys[i]] === undefined) continue;
\* row[columns[i]] = obj[keys[i]] }, after i rounds.
RECURSIVE PartialRowFrom(_, _, _, _)
PartialRowFrom(keys, columns, obj, i) ==
    IF i = 0 THEN <<>>
    ELSE IF Get(obj, keys[i]).t = "undefined"
    THEN PartialRowFrom(keys, columns, obj, i - 1)
    ELSE PutColumn(PartialRowFrom(keys, columns, obj, i - 1),
                   columns[i], Get(obj, keys[i]))

transfersToPartialRow(keys, columns, obj) ==
    PartialRowFrom(keys, columns, obj, Len(keys))

\* The mapper of the facade's binding.
toObject(row) == transfersToObject(Keys, Columns, row)
toRow(obj) == transfersToRow(Keys, Columns, obj)
toPartialRow(obj) == transfersToPartialRow(Keys, Columns, obj)

\* The rows the bound table may hold.
AnnRow ==
    <<Cell("id", Number("1")), Cell("name", String("Ann")),
      Cell("created_at", SqlNull)>>
BobRow ==
    <<Cell("id", Number("2")), Cell("name", String("Bob")),
      Cell("created_at", String("2024-01-01"))>>

Tables == {<<>>, <<AnnRow>>, <<AnnRow, BobRow>>, <<BobRow, AnnRow>>}

\* Variant of the clause of one entry without the LIKE branch.
ClauseOfWithoutLike(column, value) ==
    IF value.t = "array"
    THEN IF Len(value.items) = 0
         THEN [text |-> "FALSE", column |-> "", value |-> Undefined]
         ELSE [text |-> "?? IN (?)", column |-> column, value |-> value]
    ELSE IF value = String("not null")
    THEN [text |-> "?? IS NOT NULL", column |-> column, value |-> Undefined]
    ELSE IF value = String("null")
    THEN [text |-> "?? IS NULL", column |-> column, value |-> Undefined]
    ELSE [text |-> "?? = ?", column |-> column, value |-> value]

\* One clause of a condition: the text format() produces, kept as its
\* template and its arguments.
ClauseOf(column, value) ==
    IF value.t = "array"
    THEN IF Len(value.items) = 0
         THEN [text |-> "FALSE", column |-> "", value |-> Undefined]
         ELSE [text |-> "?? IN (?)", column |-> column, value |-> value]
    ELSE IF value = String("not null")
    THEN [text |-> "?? IS NOT NULL", column |-> column, value |-> Undefined]
    ELSE IF value = String("null")
    THEN [text |-> "?? IS NULL", column |-> column, value |-> Undefined]
    ELSE IF value.t = "string" /\ Includes(value, "%")
    THEN [text |-> "?? LIKE ?", column |-> column, value |-> value]
    ELSE [text |-> "?? = ?", column |-> column, value |-> value]

\* Variant of getCondition that takes the Nth column for the Nth entry.
getConditionPositional(query) ==
    IF Size(query) = 0
    THEN [threw |-> TRUE, clauses |-> <<>>]
    ELSE [threw |-> FALSE,
          clauses |-> [i \in 1..Len(query) |->
                          ClauseOf(Columns[i], query[i].value)]]

\* Variant of getCondition that leaves the clause of an empty list out.
getConditionSkippingEmptyLists(query) ==
    IF Size(query) = 0
    THEN [threw |-> TRUE, clauses |-> <<>>]
    ELSE [threw |-> FALSE,
          clauses |-> SelectSeq(
              [i \in 1..Len(query) |->
                  ClauseOf(Columns[IndexOf(query[i].key)], query[i].value)],
              LAMBDA clause : clause.text # "FALSE")]

\* getCondition(query): throws on a query without entries; else one clause
\* per entry, in the order of Object.keys(query), joined with AND.
getCondition(query) ==
    IF Size(query) = 0
    THEN [threw |-> TRUE, clauses |-> <<>>]
    ELSE [threw |-> FALSE,
          clauses |-> [i \in 1..Len(query) |->
                          ClauseOf(Columns[IndexOf(query[i].key)], query[i].value)]]

\* A statement handed to connection.query: its template, the clauses
\* appended to it, and the values bound to its placeholders.  bound is
\* FALSE when the template still holds a ? and no values are passed.
NoRow == <<>>
Statement(t, cs, r, b) == [sql |-> t, where |-> cs, row |-> r, bound |-> b]

\* The server parses the statement: a ? left in the text, and a SET
\* without assignments, are syntax errors.
WellFormed(stmt) ==
    /\ stmt.bound
    /\ (stmt.sql = "UPDATE ?? SET ? WHERE " => stmt.row # <<>>)

\* text LIKE pattern, for the patterns of the model.
Like(text, pattern) == pattern = "%a%" /\ text \in {"Ann"}

\* The server evaluates one clause of a WHERE on a row.  A comparison
\* with NULL is not true.
Matches(clause, row) ==
    LET v == GetColumn(row, clause.column)
    IN  CASE clause.text = "FALSE" -> FALSE
          [] clause.text = "?? IS NULL" -> v.t = "null"
          [] clause.text = "?? IS NOT NULL" -> v.t # "null"
          [] clause.text = "?? IN (?)" ->
                /\ v.t \in {"number", "string"}
                /\ \E i \in 1..Len(clause.value.items) : clause.value.items[i] = v.s
          [] clause.text = "?? LIKE ?" ->
                v.t = "string" /\ Like(v.s, clause.value.s)
          [] clause.text = "?? = ?" ->
                /\ v.t \in {"number", "string"}
                /\ clause.value.t \in {"number", "string"}
                /\ clause.value.s = v.s

MatchesAll(clauses, row) == \A i \in 1..Len(clauses) : Matches(clauses[i], row)

\* The rows a statement applies to: all of them without a WHERE, else
\* those every clause of the condition is true of.
Select(rows, stmt) == SelectSeq(rows, LAMBDA row : MatchesAll(stmt.where, row))

Selected(stmt) == Select(table, stmt)

\* What connection.query resolves with.  A SELECT gives the selected rows
\* in the server's order; the other statements give the result descriptor
\* (ResultSetHeader), of which the model keeps affectedRows and insertId.
Rows(rs) == [t |-> "rows", rows |-> rs]
ResultSetHeader(n, id) == [t |-> "result", affectedRows |-> n, insertId |-> id]

IsSelect(stmt) == stmt.sql \in {"SELECT ?? FROM ??;", "SELECT ?? FROM ?? WHERE "}
IsInsert(stmt) ==
    stmt.sql \in {"INSERT INTO ?? (??) VALUE ?;", "INSERT INTO ?? (??) VALUES ?"}
IsDelete(stmt) == stmt.sql \in {"DELETE FROM ??;", "DELETE FROM ?? WHERE "}

Result(stmt) ==
    IF IsSelect(stmt) THEN Rows(Selected(stmt))
    ELSE IF stmt.sql = "SELECT ?? FROM ?? LIMIT 1;"
    THEN Rows(SubSeq(Selected(stmt), 1,
                     IF Selected(stmt) = <<>> THEN 0 ELSE 1))
    ELSE IF IsInsert(stmt) THEN ResultSetHeader(Len(stmt.row), Len(table) + 1)
    ELSE ResultSetHeader(Len(Selected(stmt)), 0)

\* The places in the table of the rows an UPDATE or DELETE applies to:
\* the server fixes them when it executes the statement.
Hit(stmt) ==
    IF stmt.sql = "UPDATE ?? SET ? WHERE " \/ IsDelete(stmt)
    THEN {p \in 1..Len(table) : MatchesAll(stmt.where, table[p])}
    ELSE {}

\* await connection.query(stmt): resolves with the server's answer, or
\* rejects with the driver's error.
Execute(stmt) ==
    (IF WellFormed(stmt)
     THEN {[Resolved(Result(stmt), <<stmt>>)
               EXCEPT !.seen = table, !.hit = Hit(stmt)]}
     ELSE {})
    \cup {[Rejected(DriverError("query"), <<stmt>>) EXCEPT !.seen = table]}

\* The row an INSERT stores for one list of values: the Nth value in the
\* Nth column, NULL for undefined.
Stored(values) ==
    [i \in 1..Len(Columns) |->
        Cell(Columns[i],
             IF values[i].t = "undefined" THEN SqlNull ELSE values[i])]

\* SET ?: every cell of the partial row written into the row.
RECURSIVE Assigned(_, _, _)
Assigned(row, cells, i) ==
    IF i = 0 THEN row
    ELSE PutColumn(Assigned(row, cells, i - 1), cells[i].column, cells[i].value)

\* The rows without those at the places in gone, in their order.
RECURSIVE Without(_, _, _)
Without(rows, gone, i) ==
    IF i = 0 THEN <<>>
    ELSE IF i \in gone THEN Without(rows, gone, i - 1)
    ELSE Append(Without(rows, gone, i - 1), rows[i])

\* The rows of the table once the server has applied the statement to the
\* rows at the places in hit.
Apply(stmt, hit, rows) ==
    IF IsInsert(stmt)
    THEN rows \o [i \in 1..Len(stmt.row) |-> Stored(stmt.row[i])]
    ELSE IF stmt.sql = "UPDATE ?? SET ? WHERE "
    THEN [i \in 1..Len(rows) |->
            IF i \in hit
            THEN Assigned(rows[i], stmt.row, Len(stmt.row))
            ELSE rows[i]]
    ELSE IF IsDelete(stmt)
    THEN Without(rows, hit, Len(rows))
    ELSE rows

\* The rows of the table once the server has applied the unit of work u.
Applied(u, rows) ==
    IF u.stmts = <<>> THEN rows ELSE Apply(u.stmts[1], u.hit, rows)

\* The rows a pending statement applies to keep their identity when rows
\* before them leave the table: their places move up, and a row that left
\* is no longer among them.
Rebased(u, gone) ==
    [u EXCEPT !.hit = {p - Cardinality({d \in gone : d < p}) : p \in @ \ gone}]

\* Variant of update's callback without the allowAffectAll test.
UpdateCallbackUnguarded(c) ==
    LET query == removeUndefined(c.query)
        row == toPartialRow(removeUndefined(c.setter))
    IN  IF Size(query) = 0
        THEN Execute(Statement("UPDATE ?? SET ?;", <<>>, NoRow, FALSE))
        ELSE Execute(Statement("UPDATE ?? SET ? WHERE ",
                               getCondition(query).clauses, row, TRUE))

\* The callback of update(setterObj, query, option).
UpdateCallback(c) ==
    LET setterObj == removeUndefined(c.setter)
        query == removeUndefined(c.query)
        row == toPartialRow(setterObj)
    IN  IF Size(query) = 0
        THEN IF Truthy(c.allow)
             THEN Execute(Statement("UPDATE ?? SET ?;", <<>>, NoRow, FALSE))
             ELSE {Rejected(PlainError("update",
                       "Query is empty and allowAffectAll is false, "
                           \o "to update all rows, "
                           \o "set allowAffectAll to true"), <<>>)}
        ELSE Execute(Statement("UPDATE ?? SET ? WHERE ",
                               getCondition(query).clauses, row, TRUE))

\* The callback of _delete(query, option): the condition is built before
\* the query is looked at.
DeleteCallback(c) ==
    LET query == removeUndefined(c.query)
        condition == getCondition(query)
    IN  IF condition.threw
        THEN {Rejected(PlainError("getCondition", "query is empty"), <<>>)}
        ELSE IF Size(query) = 0
        THEN IF Truthy(c.allow)
             THEN Execute(Statement("DELETE FROM ??;", <<>>, NoRow, TRUE))
             ELSE {Rejected(PlainError("delete", "query is empty"), <<>>)}
        ELSE Execute(Statement("DELETE FROM ?? WHERE ", condition.clauses,
                               NoRow, TRUE))

\* The callbacks a direct caller of handler may pass: one that resolves,
\* one that throws an ordinary Error, one whose statement the driver rejects.
CallerStatement == Statement("caller", <<>>, NoRow, TRUE)

DirectCallback(c) ==
    {Resolved(Response, <<CallerStatement>>),
     Rejected(PlainError("callback", "failed"), <<>>),
     Rejected(DriverError("query"), <<CallerStatement>>)}

\* rows.map(toObject), as the value of find.
Objects(os) == [t |-> "objects", items |-> os]

MapToObject(r) ==
    IF r.ok
    THEN [r EXCEPT !.value = Objects([i \in 1..Len(r.value.rows) |->
                                         toObject(r.value.rows[i])])]
    ELSE r

\* Variant of find's callback that never appends the condition.
FindCallbackSelectAll(c) ==
    {MapToObject(r) :
        r \in Execute(Statement("SELECT ?? FROM ??;", <<>>, NoRow, TRUE))}

\* The callback of find(query): hasQuery is FALSE for a call without the
\* argument, which removeUndefined hands back as it is.
FindCallback(c) ==
    LET query == removeUndefined(c.query)
    IN  IF ~c.hasQuery \/ Size(query) = 0
        THEN {MapToObject(r) :
                r \in Execute(Statement("SELECT ?? FROM ??;", <<>>, NoRow, TRUE))}
        ELSE {MapToObject(r) :
                r \in Execute(Statement("SELECT ?? FROM ?? WHERE ",
                                        getCondition(query).clauses, NoRow, TRUE))}

\* keys.map(key => key in setterObj ? setterObj[key] : undefined)
ValueList(setterObj) == [i \in 1..Len(Keys) |-> Get(setterObj, Keys[i])]

\* The callback of save(setterObj).
SaveCallback(c) ==
    LET setterObj == removeUndefined(c.setter)
    IN  Execute(Statement("INSERT INTO ?? (??) VALUE ?;", <<>>,
                          <<ValueList(setterObj)>>, TRUE))

\* The descriptor saveMany returns for an empty list.
EmptyResult == ResultSetHeader(0, 0)

\* The callback of saveMany(setterObjs).
SaveManyCallback(c) ==
    IF Len(c.setterObjs) = 0
    THEN {Resolved(EmptyResult, <<>>)}
    ELSE Execute(Statement("INSERT INTO ?? (??) VALUES ?", <<>>,
                           [i \in 1..Len(c.setterObjs) |->
                               ValueList(removeUndefined(c.setterObjs[i]))],
                           TRUE))

\* The statement of checkValid.
CheckValidStatement ==
    Statement("SELECT ?? FROM ?? LIMIT 1;", <<>>, NoRow, TRUE)

\* The callback of checkValid({columns, table, validateCheck}): when the
\* query rejects, with validateCheck it writes the message and the code
\* with console.error and rethrows, without it it writes them with
\* console.log and returns.
CheckValidCallback(c) ==
    {IF r.ok
     THEN [r EXCEPT !.value = Undefined]
     ELSE IF Truthy(c.validateCheck)
     THEN [r EXCEPT !.printed = <<"message", "code">>]
     ELSE [Resolved(Undefined, r.stmts) EXCEPT !.seen = r.seen] :
        r \in Execute(CheckValidStatement)}

CallbackResults(c) ==
    CASE c.name = "handler" -> DirectCallback(c)
      [] c.name = "checkValid" -> CheckValidCallback(c)
      [] c.name = "update" -> UpdateCallback(c)
      [] c.name = "delete" -> DeleteCallback(c)
      [] c.name \in {"find", "findOne"} -> FindCallback(c)
      [] c.name = "save" -> SaveCallback(c)
      [] c.name = "saveMany" -> SaveManyCallback(c)

----------------------------------------------------------------------------
\* The handler.

Opt(i) == ResolveOption(call[i].option)

\* Variants of the rollback test: the flag alone, whatever useTransaction
\* says; a rollback on every failure; no rollback at all.
ShouldRollbackIgnoringTransaction(o) == Truthy(o.rollbackIfError)

ShouldRollbackAlways(o) == TRUE

ShouldRollbackNever(o) == FALSE

\* catch: if (option.useTransaction && option.rollbackIfError)
ShouldRollback(o) == Truthy(o.useTransaction) /\ Truthy(o.rollbackIfError)

\* catch: what the caller gets for the caught error e.
Classified(e, o) ==
    IF isDbError(e, FALSE)
    THEN IF Truthy(o.throwError) THEN Raise(DbError(e)) ELSE Return(Null)
    ELSE IF Truthy(NullishOr(o.throwError, "true")) THEN Raise(e) ELSE Return(Null)

\* catch: the console.error lines for the caught error e.
SqlErrorOutput(e, o) ==
    IF isDbError(e, FALSE) /\ Truthy(o.printSqlError)
    THEN <<"sql: ", "sqlMessage: ", "sqlState: ", "errno: ", "code: ">>
    ELSE <<>>

\* Variant of getConnection's catch that never throws.
PoolFailureAlwaysNull(o) == Return(Null)

\* getConnection's catch: what the handler gives its caller.
PoolFailure(o) ==
    IF Truthy(o.throwError)
    THEN Raise(PoolError("Connection does not created."))
    ELSE Return(Null)

\* finally { connection.release() }, then the pending return or throw of
\* invocation i.
Finally(i, l, o) ==
    /\ log' = [log EXCEPT ![i] = Append(l, "release")]
    /\ free' = free + 1
    /\ outcome' = [outcome EXCEPT ![i] = o]
    /\ pc' = [pc EXCEPT ![i] = "done"]

\* Invocation i enters the catch block with error e after the events l
\* and the console.error lines d.
Catch(i, l, d, e) ==
    IF ShouldRollback(Opt(i))
    THEN /\ log' = [log EXCEPT ![i] = l]
         /\ caught' = [caught EXCEPT ![i] = e]
         /\ diag' = [diag EXCEPT ![i] = d]
         /\ pc' = [pc EXCEPT ![i] = "rollback"]
         /\ UNCHANGED <<outcome, free>>
    ELSE /\ caught' = [caught EXCEPT ![i] = NoError]
         /\ diag' = [diag EXCEPT ![i] = d \o SqlErrorOutput(e, Opt(i))]
         /\ Finally(i, l, Classified(e, Opt(i)))

\* The option save and saveMany pass, and a variant of it: none.
SaveOptionOmitted == NoOption

WithoutTransaction ==
    [given |-> TRUE, throwError |-> "unset", printSqlError |-> "unset",
     rollbackIfError |-> "unset", useTransaction |-> "false"]

\* handler called directly, with any option argument.
HandlerCalls ==
    [name : {"handler"}, option : OptionArgs \cup {NoOption},
     setter : {<<>>}, query : {<<>>}, allow : {"unset"},
     hasQuery : {TRUE}, setterObjs : {<<>>}, throwError : {"unset"}]

NoCall ==
    [name |-> "none", option |-> NoOption, setter |-> <<>>, query |-> <<>>,
     allow |-> "unset", hasQuery |-> TRUE, setterObjs |-> <<>>,
     throwError |-> "unset"]

\* The facade against a table.  find, findOne, update and _delete pass
\* handler no option; save and saveMany pass { useTransaction: false }.
FacadeQueries ==
    {<<>>,
     <<Entry("id", Undefined)>>,
     <<Entry("id", Undefined), Entry("name", Undefined)>>,
     <<Entry("id", Number("1"))>>,
     <<Entry("name", String("%a%"))>>,
     <<Entry("id", Array(<<"1", "2">>))>>,
     <<Entry("id", Array(<<>>))>>,
     <<Entry("name", Undefined), Entry("id", Number("1"))>>,
     <<Entry("id", Array(<<>>)), Entry("name", String("%a%"))>>}

\* The predicates handed to findOne, update and _delete.
ScopedQueries ==
    {<<>>,
     <<Entry("id", Undefined)>>,
     <<Entry("id", Number("1"))>>,
     <<Entry("id", Array(<<"1", "2">>))>>,
     <<Entry("id", Array(<<>>))>>,
     <<Entry("id", Array(<<>>)), Entry("name", String("%a%"))>>}

FacadeSetters ==
    {<<>>, <<Entry("name", String("Ann"))>>, <<Entry("name", Undefined)>>}

SaveSetters ==
    {<<Entry("id", Number("1")), Entry("name", String("Ann"))>>,
     <<Entry("name", String("Ann")), Entry("createdAt", Undefined),
       Entry("id", Number("1"))>>}

FindCalls ==
    [name : {"find"}, option : {NoOption},
     setter : {<<>>}, query : FacadeQueries, allow : {"unset"},
     hasQuery : {TRUE}, setterObjs : {<<>>}, throwError : {"unset"}]
    \cup
    [name : {"find"}, option : {NoOption},
     setter : {<<>>}, query : {<<>>}, allow : {"unset"},
     hasQuery : {FALSE}, setterObjs : {<<>>}, throwError : {"unset"}]

FindOneCalls ==
    [name : {"findOne"}, option : {NoOption},
     setter : {<<>>}, query : ScopedQueries, allow : {"unset"},
     hasQuery : {TRUE}, setterObjs : {<<>>}, throwError : Flag]

SaveCalls ==
    [name : {"save"}, option : {WithoutTransaction},
     setter : SaveSetters, query : {<<>>}, allow : {"unset"},
     hasQuery : {TRUE}, setterObjs : {<<>>}, throwError : {"unset"}]

SaveManyCalls ==
    [name : {"saveMany"}, option : {WithoutTransaction},
     setter : {<<>>}, query : {<<>>}, allow : {"unset"},
     hasQuery : {TRUE},
     setterObjs : UNION {[1..n -> SaveSetters] : n \in 0..MaxBatch},
     throwError : {"unset"}]

FacadeUpdateCalls ==
    [name : {"update"}, option : {NoOption},
     setter : FacadeSetters, query : ScopedQueries, allow : Flag,
     hasQuery : {TRUE}, setterObjs : {<<>>}, throwError : {"unset"}]

FacadeDeleteCalls ==
    [name : {"delete"}, option : {NoOption},
     setter : {<<>>}, query : ScopedQueries, allow : Flag,
     hasQuery : {TRUE}, setterObjs : {<<>>}, throwError : {"unset"}]

FacadeCalls ==
    FindCalls \cup FindOneCalls \cup SaveCalls \cup SaveManyCalls
        \cup FacadeUpdateCalls \cup FacadeDeleteCalls

\* The operation started while another is in flight:
\* save({ id: 1, name: "Ann" }).
OverlappingFacadeCalls ==
    [name : {"save"}, option : {WithoutTransaction},
     setter : {<<Entry("id", Number("1")), Entry("name", String("Ann"))>>},
     query : {<<>>}, allow : {"unset"},
     hasQuery : {TRUE}, setterObjs : {<<>>}, throwError : {"unset"}]

\* A caller invokes handler: invocation i starts, whatever the other
\* invocation is doing.
Call(i) ==
    /\ pc[i] = "idle"
    /\ \E c \in HandlerCalls :
          call' = [call EXCEPT ![i] = c]
    /\ pc' = [pc EXCEPT ![i] = "getConnection"]
    /\ UNCHANGED <<log, uow, caught, diag, outcome, free, table, poolOption>>

\* The promise invocation i returned has settled and the caller has taken
\* its outcome; what stays behind is the pool and the table.
Settle(i) ==
    /\ pc[i] = (IF call[i].name = "findOne" THEN "findOneDone" ELSE "done")
    /\ pc' = [pc EXCEPT ![i] = "idle"]
    /\ call' = [call EXCEPT ![i] = NoCall]
    /\ log' = [log EXCEPT ![i] = <<>>]
    /\ uow' = [uow EXCEPT ![i] = NoUow]
    /\ caught' = [caught EXCEPT ![i] = NoError]
    /\ diag' = [diag EXCEPT ![i] = <<>>]
    /\ outcome' = [outcome EXCEPT ![i] = Pending]
    /\ UNCHANGED <<free, table, poolOption>>

\* await pool.getConnection() resolves: the pool lends a connection it has.
GetConnectionOk(i) ==
    /\ pc[i] = "getConnection"
    /\ free > 0
    /\ free' = free - 1
    /\ log' = [log EXCEPT ![i] = Append(@, "acquire")]
    /\ pc' = [pc EXCEPT ![i] = IF Truthy(Opt(i).useTransaction)
                                THEN "beginTransaction" ELSE "callback"]
    /\ UNCHANGED <<call, uow, caught, diag, outcome, table, poolOption>>

\* await pool.getConnection() rejects.
GetConnectionFail(i) ==
    /\ pc[i] = "getConnection"
    /\ log' = [log EXCEPT ![i] = Append(@, "acquireFail")]
    /\ diag' = [diag EXCEPT ![i] =
                   @ \o <<"Connection does not created.", Inspect(poolOption)>>]
    /\ outcome' = [outcome EXCEPT ![i] = PoolFailure(Opt(i))]
    /\ pc' = [pc EXCEPT ![i] = "done"]
    /\ UNCHANGED <<call, uow, caught, free, table, poolOption>>

\* await connection.beginTransaction() resolves.
BeginOk(i) ==
    /\ pc[i] = "beginTransaction"
    /\ log' = [log EXCEPT ![i] = Append(@, "begin")]
    /\ pc' = [pc EXCEPT ![i] = "callback"]
    /\ UNCHANGED <<call, uow, caught, diag, outcome, free, table, poolOption>>

\* await connection.beginTransaction() rejects: the call is outside the try
\* block, so the rejection leaves the handler as it is.
BeginFail(i) ==
    /\ pc[i] = "beginTransaction"
    /\ log' = [log EXCEPT ![i] = Append(@, "beginFail")]
    /\ outcome' = [outcome EXCEPT ![i] = Raise(DriverError("begin"))]
    /\ pc' = [pc EXCEPT ![i] = "done"]
    /\ UNCHANGED <<call, uow, caught, diag, free, table, poolOption>>

\* The units of work once the server has applied that of invocation i,
\* which is u: the statements that wait for a commit keep their rows
\* when u is a DELETE.
Units(i, u) ==
    [j \in DOMAIN uow |->
        IF j = i THEN u
        ELSE IF pc[j] = "commit" /\ u.stmts # <<>> /\ IsDelete(u.stmts[1])
        THEN Rebased(uow[j], u.hit)
        ELSE uow[j]]

\* await callback(connection).  Without a transaction the server applies
\* the statement as it is executed; with one it applies it at the commit.
Callback(i) ==
    /\ pc[i] = "callback"
    /\ \E r \in CallbackResults(call[i]) :
        IF r.ok
        THEN IF Truthy(Opt(i).useTransaction)
             THEN /\ uow' = [uow EXCEPT ![i] = r]
                  /\ log' = [log EXCEPT ![i] = Append(@, "callback")]
                  /\ diag' = [diag EXCEPT ![i] = @ \o r.printed]
                  /\ pc' = [pc EXCEPT ![i] = "commit"]
                  /\ UNCHANGED <<caught, outcome, free, table>>
             ELSE /\ uow' = Units(i, r)
                  /\ Finally(i, Append(log[i], "callback"), Return(r.value))
                  /\ diag' = [diag EXCEPT ![i] = @ \o r.printed]
                  /\ table' = Applied(r, table)
                  /\ UNCHANGED caught
        ELSE /\ uow' = [uow EXCEPT ![i] = r]
             /\ Catch(i, Append(log[i], "callback"), diag[i] \o r.printed,
                      r.error)
             /\ UNCHANGED table
    /\ UNCHANGED <<call, poolOption>>

\* await connection.commit() resolves: the server applies the statement of
\* the transaction to the rows fixed when it was executed.
CommitOk(i) ==
    /\ pc[i] = "commit"
    /\ Finally(i, Append(log[i], "commit"), Return(uow[i].value))
    /\ table' = Applied(uow[i], table)
    /\ uow' = Units(i, uow[i])
    /\ UNCHANGED <<call, caught, diag, poolOption>>

\* await connection.commit() rejects: nothing of the transaction is applied.
CommitFail(i) ==
    /\ pc[i] = "commit"
    /\ Catch(i, Append(log[i], "commitFail"), diag[i], DriverError("commit"))
    /\ UNCHANGED <<call, uow, table, poolOption>>

\* await connection.rollback() resolves.
RollbackOk(i) ==
    /\ pc[i] = "rollback"
    /\ diag' = [diag EXCEPT ![i] = @ \o SqlErrorOutput(caught[i], Opt(i))]
    /\ Finally(i, Append(log[i], "rollback"), Classified(caught[i], Opt(i)))
    /\ UNCHANGED <<call, uow, caught, table, poolOption>>

\* Variant of a rejected rollback that skips the finally block.
RollbackFailWithoutRelease(i) ==
    /\ pc[i] = "rollback"
    /\ log' = [log EXCEPT ![i] = Append(@, "rollbackFail")]
    /\ outcome' = [outcome EXCEPT ![i] = Raise(DriverError("rollback"))]
    /\ pc' = [pc EXCEPT ![i] = "done"]
    /\ UNCHANGED <<call, uow, caught, diag, free, table, poolOption>>

\* await connection.rollback() rejects inside the catch block.
RollbackFail(i) ==
    /\ pc[i] = "rollback"
    /\ Finally(i, Append(log[i], "rollbackFail"),
               Raise(DriverError("rollback")))
    /\ UNCHANGED <<call, uow, caught, diag, table, poolOption>>

\* No invocation has started.
Idle ==
    /\ pc = [i \in Invocations |-> "idle"]
    /\ log = [i \in Invocations |-> <<>>]
    /\ uow = [i \in Invocations |-> NoUow]
    /\ caught = [i \in Invocations |-> NoError]
    /\ diag = [i \in Invocations |-> <<>>]
    /\ outcome = [i \in Invocations |-> Pending]
    /\ free = PoolSize

Init ==
    /\ Idle
    /\ call = [i \in Invocations |-> NoCall]
    /\ table = <<AnnRow, BobRow>>
    /\ poolOption = PoolOption("hunter2")

\* A step of one invocation of the handler.
Step(i) ==
    \/ GetConnectionOk(i)
    \/ GetConnectionFail(i)
    \/ BeginOk(i)
    \/ BeginFail(i)
    \/ Callback(i)
    \/ CommitOk(i)
    \/ CommitFail(i)
    \/ RollbackOk(i)
    \/ RollbackFail(i)

Next ==
    \E i \in Invocations :
        \/ Call(i)
        \/ Step(i)
        \/ Settle(i)

Spec == Init /\ [][Next]_vars

----------------------------------------------------------------------------
\* The handler under pools that differ in the password only.

InitPools ==
    /\ Idle
    /\ call = [i \in Invocations |-> NoCall]
    /\ table = <<>>
    /\ \E password \in Passwords : poolOption = PoolOption(password)

SpecPools == InitPools /\ [][Next]_vars

----------------------------------------------------------------------------
\* The facade on a table.

\* The number of rows the operation c hands to its INSERT.
Inserted(c) ==
    IF c.name = "save" THEN 1
    ELSE IF c.name = "saveMany" THEN Len(c.setterObjs)
    ELSE 0

\* A caller invokes an operation of the facade; one that inserts, while
\* the table has room.
CallFacade(i) ==
    /\ pc[i] = "idle"
    /\ \E c \in (IF i = "a" THEN FacadeCalls ELSE OverlappingFacadeCalls) :
        /\ Inserted(c) > 0 =>
              \A j \in Invocations \ {i} :
                  Len(table) + Inserted(c)
                      + (IF pc[j] \in {"getConnection", "callback"}
                         THEN Inserted(call[j]) ELSE 0) <= MaxRows
        /\ call' = [call EXCEPT ![i] = c]
    /\ pc' = [pc EXCEPT ![i] = "getConnection"]
    /\ UNCHANGED <<log, uow, caught, diag, outcome, free, table, poolOption>>

\* Variant of findOne that never looks at throwError.
findOneFirstRow(found, throwError) ==
    IF found.kind = "raise" THEN found
    ELSE IF found.value.t # "objects"
    THEN Raise(PlainError("findOne", "TypeError"))
    ELSE IF Len(found.value.items) = 0 THEN Return(Undefined)
    ELSE Return(found.value.items[1])

\* findOne after its await find(query): found is what find settled with.
findOne(found, throwError) ==
    IF found.kind = "raise" THEN found
    ELSE IF found.value.t # "objects"
    THEN Raise(PlainError("findOne", "TypeError"))
    ELSE LET rows == found.value.items
         IN  IF Len(rows) = 0 /\ Truthy(throwError)
             THEN Raise(PlainError("findOne", "Not Found"))
             ELSE IF Len(rows) > 1 /\ Truthy(throwError)
             THEN Raise(PlainError("findOne", "Multiple Found"))
             ELSE IF Len(rows) = 0 THEN Return(Undefined)
             ELSE Return(rows[1])

\* findOne resumes when the promise of find has settled.
FindOne(i) ==
    /\ pc[i] = "done"
    /\ call[i].name = "findOne"
    /\ outcome' = [outcome EXCEPT ![i] = findOne(@, call[i].throwError)]
    /\ pc' = [pc EXCEPT ![i] = "findOneDone"]
    /\ UNCHANGED <<call, log, uow, caught, diag, free, table, poolOption>>

InitFacade ==
    /\ Idle
    /\ call = [i \in Invocations |-> NoCall]
    /\ table \in Tables
    /\ poolOption = PoolOption("hunter2")

NextFacade ==
    \E i \in Invocations :
        \/ CallFacade(i)
        \/ Step(i)
        \/ FindOne(i)
        \/ Settle(i)

SpecFacade == InitFacade /\ [][NextFacade]_vars

----------------------------------------------------------------------------
\* getCondition on its own: the builder applied to a predicate and to a
\* reordering of the same entries.  Every caller hands it a predicate that
\* went through removeUndefined.

ConditionQueries ==
    ObjectsOver(QueryValues \ {Undefined}, MaxConditionEntries)

Permutations(n) ==
    {f \in [1..n -> 1..n] : \A i, j \in 1..n : f[i] = f[j] => i = j}

Reorderings(query) ==
    {[i \in 1..Len(query) |-> query[f[i]]] : f \in Permutations(Len(query))}

ConditionCalls ==
    UNION {{[name |-> "getCondition", query |-> q, reordered |-> r] :
               r \in Reorderings(q)} : q \in ConditionQueries}

\* What a call of getCondition gives: the condition or the Error thrown.
Condition(cs) == [t |-> "condition", clauses |-> cs]

ConditionOf(query) ==
    LET c == getCondition(query)
    IN  IF c.threw
        THEN Raise(PlainError("getCondition", "query is empty"))
        ELSE Return(Condition(c.clauses))

Conditions(a, b) == [t |-> "conditions", first |-> a, second |-> b]

GetCondition(i) ==
    /\ pc[i] = "idle"
    /\ call[i].name = "getCondition"
    /\ outcome' = [outcome EXCEPT ![i] =
                       Return(Conditions(ConditionOf(call[i].query),
                                         ConditionOf(call[i].reordered)))]
    /\ pc' = [pc EXCEPT ![i] = "done"]
    /\ UNCHANGED <<call, log, uow, caught, diag, free, table, poolOption>>

InitCondition ==
    /\ Idle
    /\ \E c \in ConditionCalls :
          call = [i \in Invocations |-> IF i = "a" THEN c ELSE NoCall]
    /\ table = <<>>
    /\ poolOption = PoolOption("hunter2")

NextCondition == GetCondition("a")

SpecCondition == InitCondition /\ [][NextCondition]_vars

----------------------------------------------------------------------------
\* transfers on its own: a mapper built from any keys and columns of equal
\* length, applied to a row and back, and to an object and back.

BindingKeys == {"a", "b"}
BindingColumns == {"x", "y"}

Bindings ==
    UNION {[keys : [1..n -> BindingKeys], columns : [1..n -> BindingColumns]] :
              n \in 0..MaxBindingLen}

\* Rows and objects over the declared names and one undeclared name.
CellChoices(c) == {<<>>, <<Cell(c, Number("1"))>>, <<Cell(c, String("Ann"))>>}
EntryChoices(k) == {<<>>, <<Entry(k, Number("1"))>>, <<Entry(k, String("Ann"))>>}

TransferRows ==
    {x \o y \o z : x \in CellChoices("x"), y \in CellChoices("y"),
                   z \in {<<>>, <<Cell("z", Number("1"))>>}}

TransferObjects ==
    {a \o b \o c : a \in EntryChoices("a"), b \in EntryChoices("b"),
                   c \in {<<>>, <<Entry("c", Number("1"))>>}}

\* Partial objects: a key is absent, holds undefined, or holds a value,
\* falsy ones among them.
PartialValues ==
    {Undefined, Number("0"), String(""), Boolean("false"), SqlNull, String("Ann")}

PartialChoices(k) == {<<>>} \cup {<<Entry(k, v)>> : v \in PartialValues}

PartialObjects ==
    {a \o b \o c : a \in PartialChoices("a"), b \in PartialChoices("b"),
                   c \in {<<>>, <<Entry("c", Number("1"))>>}}

TransferCalls ==
    {[name |-> "toRow(toObject)", keys |-> b.keys, columns |-> b.columns,
      row |-> r, obj |-> <<>>] : b \in Bindings, r \in TransferRows}
    \cup
    {[name |-> "toObject(toRow)", keys |-> b.keys, columns |-> b.columns,
      row |-> <<>>, obj |-> o] : b \in Bindings, o \in TransferObjects}
    \cup
    {[name |-> "toPartialRow", keys |-> b.keys, columns |-> b.columns,
      row |-> <<>>, obj |-> o] : b \in Bindings, o \in PartialObjects}

RowValue(r) == [t |-> "row", row |-> r]
ObjectValue(o) == [t |-> "object", obj |-> o]

\* toRow(toObject(row))
RowRoundTrip(i) ==
    /\ pc[i] = "idle"
    /\ call[i].name = "toRow(toObject)"
    /\ outcome' = [outcome EXCEPT ![i] = Return(RowValue(
            transfersToRow(call[i].keys, call[i].columns,
                transfersToObject(call[i].keys, call[i].columns,
                                  call[i].row))))]
    /\ pc' = [pc EXCEPT ![i] = "done"]
    /\ UNCHANGED <<call, log, uow, caught, diag, free, table, poolOption>>

\* toObject(toRow(obj))
ObjectRoundTrip(i) ==
    /\ pc[i] = "idle"
    /\ call[i].name = "toObject(toRow)"
    /\ outcome' = [outcome EXCEPT ![i] = Return(ObjectValue(
            transfersToObject(call[i].keys, call[i].columns,
                transfersToRow(call[i].keys, call[i].columns,
                               call[i].obj))))]
    /\ pc' = [pc EXCEPT ![i] = "done"]
    /\ UNCHANGED <<call, log, uow, caught, diag, free, table, poolOption>>

\* toPartialRow(obj), with toRow(obj) next to it.
PartialAndFullRow(p, f) == [t |-> "rows", partial |-> p, full |-> f]

PartialRow(i) ==
    /\ pc[i] = "idle"
    /\ call[i].name = "toPartialRow"
    /\ outcome' = [outcome EXCEPT ![i] = Return(PartialAndFullRow(
            transfersToPartialRow(call[i].keys, call[i].columns, call[i].obj),
            transfersToRow(call[i].keys, call[i].columns, call[i].obj)))]
    /\ pc' = [pc EXCEPT ![i] = "done"]
    /\ UNCHANGED <<call, log, uow, caught, diag, free, table, poolOption>>

InitTransfers ==
    /\ Idle
    /\ \E c \in TransferCalls :
          call = [i \in Invocations |-> IF i = "a" THEN c ELSE NoCall]
    /\ table = <<>>
    /\ poolOption = PoolOption("hunter2")

NextTransfers ==
    \/ RowRoundTrip("a")
    \/ ObjectRoundTrip("a")
    \/ PartialRow("a")

SpecTransfers == InitTransfers /\ [][NextTransfers]_vars

----------------------------------------------------------------------------
\* Construction: transfers, _crudPackage and crudPackage in its object
\* form.  crudPackage is synchronous: it calls checkValid, which invokes
\* the handler and whose promise it does not await, and returns what
\* _crudPackage returns.  The caller of the constructors is Package; the
\* invocation of the handler for checkValid is "a", and the one for the
\* operation the caller starts on the facade it got is "b".

Package == "package"

PackageKeys == {"id", "createdAt"}
PackageColumns == {"id", "created_at"}

\* input.replace(/([a-z])([A-Z])/g, "$1_$2").toLowerCase(), on the keys of
\* the model.
convertToSnakeString(input) ==
    IF input = "createdAt" THEN "created_at" ELSE input

convertToSnakeStrings(strings) ==
    [i \in 1..Len(strings) |-> convertToSnakeString(strings[i])]

SeqsUpTo(S, n) == UNION {[1..m -> S] : m \in 0..n}

\* hasColumns is FALSE for an object form without columns, hasTransfers is
\* TRUE for an option that brings its own transfers.
PackageCalls ==
    [name : {"transfers"},
     keys : SeqsUpTo(PackageKeys, MaxBindingLen),
     columns : SeqsUpTo(PackageColumns, MaxBindingLen),
     hasColumns : {TRUE}, hasTransfers : {FALSE}, validateCheck : {"unset"}]
    \cup
    [name : {"_crudPackage"},
     keys : SeqsUpTo(PackageKeys, MaxBindingLen),
     columns : SeqsUpTo(PackageColumns, MaxBindingLen),
     hasColumns : {TRUE}, hasTransfers : BOOLEAN, validateCheck : {"unset"}]
    \cup
    [name : {"crudPackage"},
     keys : SeqsUpTo(PackageKeys, MaxBindingLen),
     columns : SeqsUpTo(PackageColumns, MaxBindingLen),
     hasColumns : {TRUE}, hasTransfers : {FALSE}, validateCheck : Flag]
    \cup
    [name : {"crudPackage"},
     keys : SeqsUpTo(PackageKeys, MaxBindingLen),
     columns : {<<>>},
     hasColumns : {FALSE}, hasTransfers : {FALSE}, validateCheck : Flag]

Mapper(keys, columns) == [t |-> "mapper", keys |-> keys, columns |-> columns]
Facade(keys, columns) == [t |-> "facade", keys |-> keys, columns |-> columns]

\* Variant of transfers without the test of the lengths.
transfersUnchecked(keys, columns) == Return(Mapper(keys, columns))

\* transfers(keys, columns)
transfers(keys, columns) ==
    IF Len(keys) # Len(columns)
    THEN Raise(PlainError("transfers", "keys and columns length must be same"))
    ELSE Return(Mapper(keys, columns))

\* _crudPackage(keys, columns, option): option.transfers || transfers(...)
_crudPackage(keys, columns, hasTransfers) ==
    IF hasTransfers THEN Return(Facade(keys, columns))
    ELSE IF transfers(keys, columns).kind = "raise"
    THEN transfers(keys, columns)
    ELSE Return(Facade(keys, columns))

\* columns ?? convertToSnakeStrings(keys)
NewColumns(c) == IF c.hasColumns THEN c.columns ELSE convertToSnakeStrings(c.keys)

Transfers(i) ==
    /\ pc[i] = "idle"
    /\ \E c \in PackageCalls :
        /\ c.name = "transfers"
        /\ call' = [call EXCEPT ![i] = c]
        /\ outcome' = [outcome EXCEPT ![i] = transfers(c.keys, c.columns)]
    /\ pc' = [pc EXCEPT ![i] = "constructed"]
    /\ UNCHANGED <<log, uow, caught, diag, free, table, poolOption>>

UnderscoreCrudPackage(i) ==
    /\ pc[i] = "idle"
    /\ \E c \in PackageCalls :
        /\ c.name = "_crudPackage"
        /\ call' = [call EXCEPT ![i] = c]
        /\ outcome' = [outcome EXCEPT ![i] =
                           _crudPackage(c.keys, c.columns, c.hasTransfers)]
    /\ pc' = [pc EXCEPT ![i] = "constructed"]
    /\ UNCHANGED <<log, uow, caught, diag, free, table, poolOption>>

\* crudPackage({keys, columns, table, validateCheck}) called by i:
\* checkValid(...) is called, which starts invocation v of the handler
\* with its callback and no option, and its promise dropped; then
\* _crudPackage returns or throws.
CrudPackage(i, v) ==
    /\ pc[i] = "idle"
    /\ pc[v] = "idle"
    /\ \E c \in PackageCalls :
        /\ c.name = "crudPackage"
        /\ call' = [call EXCEPT
                        ![i] = c,
                        ![v] = [name |-> "checkValid", option |-> NoOption,
                                setter |-> <<>>, query |-> <<>>,
                                allow |-> "unset", hasQuery |-> TRUE,
                                setterObjs |-> <<>>, throwError |-> "unset",
                                validateCheck |-> c.validateCheck]]
        /\ outcome' = [outcome EXCEPT ![i] =
                           _crudPackage(c.keys, NewColumns(c), FALSE)]
    /\ log' = [log EXCEPT ![i] = <<"checkValid">>]
    /\ pc' = [pc EXCEPT ![i] = "constructed", ![v] = "getConnection"]
    /\ UNCHANGED <<uow, caught, diag, free, table, poolOption>>

\* The caller i of crudPackage starts an operation of the facade it got,
\* find(), which is invocation o of the handler.
Operation(i, o) ==
    /\ pc[i] = "constructed"
    /\ outcome[i].kind = "return"
    /\ outcome[i].value.t = "facade"
    /\ Cardinality({j \in 1..Len(log[i]) : log[i][j] = "operation"})
          < MaxOperations
    /\ pc[o] = "idle"
    /\ \E c \in {f \in FindCalls : ~f.hasQuery} :
          call' = [call EXCEPT ![o] = c]
    /\ log' = [log EXCEPT ![i] = Append(@, "operation")]
    /\ pc' = [pc EXCEPT ![o] = "getConnection"]
    /\ UNCHANGED <<uow, caught, diag, outcome, free, table, poolOption>>

InitPackage ==
    /\ pc = [i \in Invocations \cup {Package} |-> "idle"]
    /\ call = [i \in Invocations \cup {Package} |-> NoCall]
    /\ log = [i \in Invocations \cup {Package} |-> <<>>]
    /\ uow = [i \in Invocations \cup {Package} |-> NoUow]
    /\ caught = [i \in Invocations \cup {Package} |-> NoError]
    /\ diag = [i \in Invocations \cup {Package} |-> <<>>]
    /\ outcome = [i \in Invocations \cup {Package} |-> Pending]
    /\ free = PoolSize
    /\ table = <<>>
    /\ poolOption = PoolOption("hunter2")

NextPackage ==
    \/ Transfers(Package)
    \/ UnderscoreCrudPackage(Package)
    \/ CrudPackage(Package, "a")
    \/ Operation(Package, "b")
    \/ \E i \in Invocations :
        \/ Step(i)
        \/ Settle(i)

SpecPackage == InitPackage /\ [][NextPackage]_vars

----------------------------------------------------------------------------
\* Reading the event log.

Count(l, ev) == Cardinality({i \in 1..Len(l) : l[i] = ev})
Has(l, ev) == \E i \in 1..Len(l) : l[i] = ev

CommitAttempts(inv) ==
    Count(log[inv], "commit") + Count(log[inv], "commitFail")
RollbackAttempts(inv) ==
    Count(log[inv], "rollback") + Count(log[inv], "rollbackFail")

UowFailed(inv) == uow[inv].ran /\ ~uow[inv].ok

Rank(ev) ==
    CASE ev \in {"acquire", "acquireFail"} -> 1
      [] ev \in {"begin", "beginFail"} -> 2
      [] ev = "callback" -> 3
      [] ev \in {"commit", "commitFail"} -> 4
      [] ev \in {"rollback", "rollbackFail"} -> 5
      [] ev = "release" -> 6

InOrder(l) == \A i, j \in 1..Len(l) : i < j => Rank(l[i]) < Rank(l[j])

----------------------------------------------------------------------------
\* C1: an invocation that acquired a connection and invoked the unit of
\* work releases the connection exactly once before it returns or raises,
\* on every exit path (success, unit-of-work failure, commit throwing,
\* rollback throwing); it never releases twice.
C1_ReleasedExactlyOnce ==
    \A inv \in Invocations :
        /\ Count(log[inv], "release") <= 1
        /\ (outcome[inv].kind # "pending" /\ Has(log[inv], "callback"))
              => /\ Count(log[inv], "release") = 1
                 /\ log[inv][Len(log[inv])] = "release"

\* C1 witness: commit threw, then rollback threw, and the connection was
\* released once.
C1_Witness ==
    \E inv \in Invocations :
        /\ pc[inv] = "done"
        /\ Has(log[inv], "commitFail")
        /\ Has(log[inv], "rollbackFail")
        /\ Count(log[inv], "release") = 1

\* C2: after a failed unit of work the connection is released exactly once;
\* rollback is attempted exactly once when useTransaction and
\* rollbackIfError are both true, and not at all when either is false.
C2_RollbackOnceReleaseOnce ==
    \A inv \in Invocations :
        (pc[inv] = "done" /\ UowFailed(inv)) =>
            /\ Count(log[inv], "release") = 1
            /\ (Opt(inv).useTransaction = "true"
                    /\ Opt(inv).rollbackIfError = "true")
                  => RollbackAttempts(inv) = 1
            /\ (Opt(inv).useTransaction = "false"
                    \/ Opt(inv).rollbackIfError = "false")
                  => RollbackAttempts(inv) = 0

\* C2 witness: a failed unit of work in a transaction, rolled back once and
\* released once.
C2_Witness ==
    \E inv \in Invocations :
        /\ pc[inv] = "done"
        /\ UowFailed(inv)
        /\ Opt(inv).useTransaction = "true"
        /\ Opt(inv).rollbackIfError = "true"
        /\ RollbackAttempts(inv) = 1
        /\ Count(log[inv], "release") = 1

\* C3 as stated: a transactional invocation that released its connection
\* issued acquire, begin, unit of work, then exactly one of commit or
\* rollback (a commit that succeeded, or else a rollback), then release.
C3_ExactlyOneOfCommitOrRollback ==
    \A inv \in Invocations :
        (pc[inv] = "done" /\ Has(log[inv], "release")
            /\ Truthy(Opt(inv).useTransaction)) =>
            /\ InOrder(log[inv])
            /\ Count(log[inv], "commit") + RollbackAttempts(inv) = 1

\* C3 amended: the events occur in the order acquire, begin (transactional
\* mode only), unit of work, at most one commit attempt, at most one
\* rollback attempt, release; nothing precedes acquire or follows release;
\* a rollback is attempted only in transactional mode with rollbackIfError
\* true, only after the unit of work or the commit failed and never after
\* a successful commit.  A transactional invocation that released its
\* connection has, with rollbackIfError true, exactly one of a successful
\* commit and a rollback attempt, the rollback attempt following every
\* failed unit of work and every failed commit; with rollbackIfError not
\* true it has a successful commit or, after a failure, neither.
C3_EventOrder ==
    \A inv \in Invocations :
        /\ InOrder(log[inv])
        /\ (log[inv] # <<>> => Rank(log[inv][1]) = 1)
        /\ (Has(log[inv], "acquireFail") \/ Has(log[inv], "beginFail")
               => Len(log[inv]) <= 2)
        /\ (Has(log[inv], "release") =>
               /\ log[inv][Len(log[inv])] = "release"
               /\ Count(log[inv], "release") = 1)
        /\ (Has(log[inv], "callback") /\ Truthy(Opt(inv).useTransaction)
               => Has(log[inv], "begin"))
        /\ (~Truthy(Opt(inv).useTransaction) =>
               /\ ~Has(log[inv], "begin") /\ ~Has(log[inv], "beginFail")
               /\ CommitAttempts(inv) = 0 /\ RollbackAttempts(inv) = 0)
        /\ CommitAttempts(inv) <= 1
        /\ RollbackAttempts(inv) <= 1
        /\ (CommitAttempts(inv) > 0 => uow[inv].ran /\ uow[inv].ok)
        /\ (RollbackAttempts(inv) > 0 =>
               /\ Truthy(Opt(inv).rollbackIfError)
               /\ UowFailed(inv) \/ Has(log[inv], "commitFail"))
        /\ ~(Has(log[inv], "commit") /\ RollbackAttempts(inv) > 0)
        /\ (Has(log[inv], "release") => Has(log[inv], "callback"))
        /\ (Has(log[inv], "release") /\ Truthy(Opt(inv).useTransaction)) =>
               IF Truthy(Opt(inv).rollbackIfError)
               THEN /\ Count(log[inv], "commit") + RollbackAttempts(inv) = 1
                    /\ (UowFailed(inv) \/ Has(log[inv], "commitFail"))
                          => RollbackAttempts(inv) = 1
               ELSE /\ RollbackAttempts(inv) = 0
                    /\ Count(log[inv], "commit") =
                          (IF UowFailed(inv) \/ Has(log[inv], "commitFail")
                           THEN 0 ELSE 1)

\* C3 witness: a commit that failed, followed by a rollback and the release.
C3_Witness ==
    \E inv \in Invocations :
        /\ pc[inv] = "done"
        /\ Has(log[inv], "commitFail")
        /\ Has(log[inv], "rollback")
        /\ log[inv][Len(log[inv])] = "release"

\* C4 as stated: in transactional mode a released connection has a
\* committed or rolled-back transaction, whatever the options.
C4_ReleasedOnlyAfterCommitOrRollback ==
    \A inv \in Invocations :
        (Has(log[inv], "begin") /\ Has(log[inv], "release"))
            => (Has(log[inv], "commit") \/ Has(log[inv], "rollback"))

\* C4 amended: in transactional mode a connection is released with its
\* transaction still open (neither committed nor rolled back) only when
\* rollbackIfError is not true for the call or when the rollback attempt
\* itself failed; otherwise it is released from Committed or RolledBack.
C4_OpenOnlyWithoutRollback ==
    \A inv \in Invocations :
        (Has(log[inv], "begin") /\ Has(log[inv], "release")
            /\ ~Has(log[inv], "commit") /\ ~Has(log[inv], "rollback"))
            => (~Truthy(Opt(inv).rollbackIfError) \/ Has(log[inv], "rollbackFail"))

\* C4 witness: a transaction whose unit of work failed is rolled back and
\* then released.
C4_Witness ==
    \E inv \in Invocations :
        /\ Has(log[inv], "begin")
        /\ UowFailed(inv)
        /\ Truthy(Opt(inv).rollbackIfError)
        /\ Has(log[inv], "rollback")
        /\ Has(log[inv], "release")

\* C5: when pool.getConnection fails the invocation ends there: nothing is
\* begun, the unit of work is not invoked, nothing is committed, rolled
\* back or released; the caller gets a PoolError when throwError is true
\* and null when it is false.
C5_AcquireFailureIsTerminal ==
    \A inv \in Invocations :
        Has(log[inv], "acquireFail") =>
            /\ log[inv] = <<"acquireFail">>
            /\ pc[inv] = "done"
            /\ ~uow[inv].ran
            /\ uow[inv].stmts = <<>>
            /\ (Opt(inv).throwError = "true"
                  => outcome[inv]
                        = Raise(PoolError("Connection does not created.")))
            /\ (Opt(inv).throwError = "false" => outcome[inv] = Return(Null))

\* C5 witness: a failed acquisition reported as a PoolError.
C5_Witness ==
    \E inv \in Invocations :
        /\ Has(log[inv], "acquireFail")
        /\ outcome[inv].kind = "raise"
        /\ outcome[inv].error.cls = "PoolError"

\* C6: in transactional mode the unit of work's result is returned only
\* after a successful commit, in the order commit, release, return; when
\* the commit throws the result is not returned, rollback is attempted
\* when rollbackIfError is true, the connection is released, and the
\* caller gets an error when throwError is true and null when it is false.
C6_ResultOnlyAfterCommit ==
    \A inv \in Invocations :
        /\ (Truthy(Opt(inv).useTransaction) /\ uow[inv].ok
               /\ outcome[inv] = Return(uow[inv].value))
              => log[inv]
                    = <<"acquire", "begin", "callback", "commit", "release">>
        /\ (pc[inv] = "done" /\ Has(log[inv], "commitFail")) =>
              /\ outcome[inv] # Return(uow[inv].value)
              /\ Count(log[inv], "release") = 1
              /\ (Opt(inv).rollbackIfError = "true" => RollbackAttempts(inv) = 1)
              /\ (Opt(inv).rollbackIfError = "false" => RollbackAttempts(inv) = 0)
              /\ (Opt(inv).throwError = "true" => outcome[inv].kind = "raise")
              /\ (Opt(inv).throwError = "false" => outcome[inv] = Return(Null))

\* C7: when the unit of work fails with E and the rollback fails too, the
\* caller still gets what E alone would give: the classified E when
\* throwError is true, null when it is false.
C7_RollbackFailureKeepsOriginalError ==
    \A inv \in Invocations :
        (pc[inv] = "done" /\ UowFailed(inv) /\ Has(log[inv], "rollbackFail")) =>
            /\ (Opt(inv).throwError = "true"
                  => outcome[inv] = Raise(DbError(uow[inv].error)))
            /\ (Opt(inv).throwError = "false" => outcome[inv] = Return(Null))

\* C8: a flag that an option object does not set keeps its default: the
\* transaction is begun, a failure is rolled back, and an error is raised.
C8_UnsetFlagsKeepDefaults ==
    \A inv \in Invocations :
        /\ (Has(log[inv], "callback") /\ call[inv].option.useTransaction = "unset")
              => Has(log[inv], "begin")
        /\ (pc[inv] = "done" /\ UowFailed(inv)
              /\ call[inv].option.rollbackIfError = "unset"
              /\ call[inv].option.useTransaction # "false")
              => RollbackAttempts(inv) = 1
        /\ (pc[inv] = "done" /\ call[inv].option.throwError = "unset"
              /\ (UowFailed(inv) \/ Has(log[inv], "acquireFail")))
              => outcome[inv].kind = "raise"

\* C9: a call made with throwError = false never raises, whatever step
\* fails; it returns the unit of work's result or null.
C9_ThrowErrorFalseNeverRaises ==
    \A inv \in Invocations :
        (pc[inv] = "done" /\ call[inv].option.throwError = "false")
            => \/ outcome[inv] = Return(Null)
               \/ (uow[inv].ok /\ outcome[inv] = Return(uow[inv].value))

\* C10: update and delete with an empty predicate and allowAffectAll absent
\* or false execute no statement and end with an error raised to the
\* caller, for every setter.
C10_UnscopedMutationRaises ==
    \A inv \in Invocations :
        (call[inv].name \in {"update", "delete"} /\ Size(call[inv].query) = 0
            /\ call[inv].allow \in {"unset", "false"}) =>
            /\ uow[inv].stmts = <<>>
            /\ (pc[inv] = "done" => outcome[inv].kind = "raise")

\* C10 witness: update with a setter, an empty predicate and
\* allowAffectAll = false ran its callback and raised.
C10_Witness ==
    \E inv \in Invocations :
        /\ call[inv].name = "update"
        /\ call[inv].setter # <<>>
        /\ Size(call[inv].query) = 0
        /\ call[inv].allow = "false"
        /\ Has(log[inv], "callback")
        /\ pc[inv] = "done"
        /\ outcome[inv].kind = "raise"

----------------------------------------------------------------------------
\* Reading a call of the facade.

\* The predicate of the call after removeUndefined.
CallQuery(inv) == removeUndefined(call[inv].query)

HasEmptyList(query) ==
    \E i \in 1..Len(query) : query[i].value = Array(<<>>)

\* The rows that satisfy the condition built from query.
Satisfying(rows, query) ==
    SelectSeq(rows, LAMBDA row : MatchesAll(getCondition(query).clauses, row))

Settled(inv) == pc[inv] \in {"done", "findOneDone"}

\* The invocation has a connection it has not released.
Holds(inv) == Has(log[inv], "acquire") /\ ~Has(log[inv], "release")

----------------------------------------------------------------------------
\* C11: update and delete called with an empty predicate and
\* allowAffectAll = true execute exactly one statement, without a WHERE
\* clause and with its placeholders bound, the update carrying the partial
\* row of the setter, and a statement the server executed gives the
\* caller the result descriptor counting every row of the table.
C11_AffectAllRunsOneUnscopedStatement ==
    \A inv \in Invocations :
        (call[inv].name \in {"update", "delete"} /\ call[inv].query = <<>>
            /\ call[inv].allow = "true" /\ uow[inv].ran) =>
            /\ Len(uow[inv].stmts) = 1
            /\ uow[inv].stmts[1].where = <<>>
            /\ uow[inv].stmts[1].bound
            /\ (call[inv].name = "update" =>
                   uow[inv].stmts[1].row
                       = toPartialRow(removeUndefined(call[inv].setter)))
            /\ (uow[inv].ok => uow[inv].value = ResultSetHeader(Len(uow[inv].seen), 0))

\* C12: find, findOne, update and delete run their statement after a
\* begin, and a successful statement is followed by a commit attempt
\* without which nothing is returned; save and saveMany have no begin,
\* commit or rollback on their connection.
C12_TransactionAroundAllButInserts ==
    \A inv \in Invocations :
        /\ call[inv].name \in {"find", "findOne", "update", "delete"} =>
            /\ (uow[inv].ran => (Has(log[inv], "begin") /\ InOrder(log[inv])))
            /\ ((Settled(inv) /\ uow[inv].ok) => CommitAttempts(inv) = 1)
            /\ ((pc[inv] = "done" /\ outcome[inv].kind = "return") =>
                    (uow[inv].ok /\ Has(log[inv], "commit")))
        /\ call[inv].name \in {"save", "saveMany"} =>
            \A i \in 1..Len(log[inv]) :
                log[inv][i] \in {"acquire", "acquireFail", "callback", "release"}

\* C12 witness: save executed its INSERT and returned with nothing but
\* acquire, callback and release on its connection.
C12_Witness ==
    \E inv \in Invocations :
        /\ call[inv].name = "save"
        /\ pc[inv] = "done"
        /\ uow[inv].ok
        /\ Len(uow[inv].stmts) = 1
        /\ log[inv] = <<"acquire", "callback", "release">>
        /\ outcome[inv].kind = "return"

\* C13: save and saveMany end either with the result descriptor of their
\* statement or with an error raised; they never return null.
C13_InsertReturnsResultOrRaises ==
    \A inv \in Invocations :
        (call[inv].name \in {"save", "saveMany"} /\ pc[inv] = "done") =>
            \/ outcome[inv].kind = "raise"
            \/ (uow[inv].ok /\ outcome[inv] = Return(uow[inv].value)
                   /\ uow[inv].value.t = "result")

\* C14: saveMany called with an empty list executes no statement and
\* returns a result descriptor with affectedRows = 0 and insertId = 0.
C14_EmptyBatchIsNoStatement ==
    \A inv \in Invocations :
        (call[inv].name = "saveMany" /\ Len(call[inv].setterObjs) = 0) =>
            /\ uow[inv].stmts = <<>>
            /\ (uow[inv].ran => uow[inv].ok)
            /\ (pc[inv] = "done" =>
                   /\ outcome[inv].kind = "return"
                   /\ outcome[inv].value.t = "result"
                   /\ outcome[inv].value.affectedRows = 0
                   /\ outcome[inv].value.insertId = 0)

\* C15: when find has returned n objects, findOne with throwError = true
\* raises "Not Found" for n = 0 and "Multiple Found" for n > 1 and returns
\* the object for n = 1; with throwError false or absent it raises nothing
\* and returns the first object, or undefined for n = 0.
C15_FindOneByRowCount ==
    \A inv \in Invocations :
        (call[inv].name = "findOne" /\ pc[inv] = "findOneDone"
            /\ Has(log[inv], "commit")) =>
            LET rows == uow[inv].value.items
                n == Len(rows)
            IN  IF call[inv].throwError = "true"
                THEN /\ (n = 0 => (outcome[inv].kind = "raise"
                                    /\ outcome[inv].error.message = "Not Found"))
                     /\ (n > 1 => (outcome[inv].kind = "raise"
                                    /\ outcome[inv].error.message = "Multiple Found"))
                     /\ (n = 1 => outcome[inv] = Return(rows[1]))
                ELSE /\ outcome[inv].kind = "return"
                     /\ (n = 0 => outcome[inv].value = Undefined)
                     /\ (n > 0 => outcome[inv].value = rows[1])

\* C15 witness: findOne with throwError = true raised "Multiple Found" on
\* two rows.
C15_Witness ==
    \E inv \in Invocations :
        /\ call[inv].name = "findOne"
        /\ call[inv].throwError = "true"
        /\ pc[inv] = "findOneDone"
        /\ Has(log[inv], "commit")
        /\ Len(uow[inv].value.items) = 2
        /\ outcome[inv].kind = "raise"
        /\ outcome[inv].error.message = "Multiple Found"

\* C16: find executes one SELECT, without a WHERE for an absent or empty
\* predicate and else with the built condition; its value has one object
\* per row the statement selects, in the server's order, each key holding
\* the value of the column aligned with it; find returns that sequence or
\* raises, never null.
C16_FindSelectsAndMaps ==
    \A inv \in Invocations :
        (call[inv].name = "find" /\ uow[inv].ran) =>
            LET all == ~call[inv].hasQuery \/ Size(CallQuery(inv)) = 0
                expected == IF all THEN uow[inv].seen
                            ELSE Satisfying(uow[inv].seen, CallQuery(inv))
            IN  /\ Len(uow[inv].stmts) = 1
                /\ (uow[inv].stmts[1].where = <<>>) <=> all
                /\ (uow[inv].ok =>
                      /\ uow[inv].value.t = "objects"
                      /\ Len(uow[inv].value.items) = Len(expected)
                      /\ \A i \in 1..Len(expected) : \A k \in 1..Len(Keys) :
                            Get(uow[inv].value.items[i], Keys[k])
                                = GetColumn(expected[i], Columns[k]))
                /\ (pc[inv] = "done" =>
                      \/ outcome[inv].kind = "raise"
                      \/ (uow[inv].ok /\ outcome[inv] = Return(uow[inv].value)))

\* C16 witness: find with a predicate has returned one object from a table
\* of two rows.
C16_Witness ==
    \E inv \in Invocations :
        /\ call[inv].name = "find"
        /\ Size(CallQuery(inv)) > 0
        /\ Len(uow[inv].seen) = 2
        /\ pc[inv] = "done"
        /\ outcome[inv].kind = "return"
        /\ Len(outcome[inv].value.items) = 1

\* C19: find, findOne, update and delete called with a predicate that has
\* an entry whose value is an empty list execute a statement with a WHERE
\* no row of the table satisfies: a find gives no object, an update or
\* delete affects no row.
C19_EmptyListMatchesNothing ==
    \A inv \in Invocations :
        (call[inv].name \in {"find", "findOne", "update", "delete"}
            /\ HasEmptyList(call[inv].query)) =>
            /\ \A i \in 1..Len(uow[inv].stmts) :
                  /\ uow[inv].stmts[i].where # <<>>
                  /\ Select(uow[inv].seen, uow[inv].stmts[i]) = <<>>
            /\ (uow[inv].ok =>
                  IF call[inv].name \in {"find", "findOne"}
                  THEN uow[inv].value = Objects(<<>>)
                  ELSE uow[inv].value.affectedRows = 0)

\* C19 witness: delete whose only entry is an empty list was executed on a
\* table of two rows and affected none.
C19_Witness ==
    \E inv \in Invocations :
        /\ call[inv].name = "delete"
        /\ Len(call[inv].query) = 1
        /\ HasEmptyList(call[inv].query)
        /\ Len(uow[inv].seen) = 2
        /\ uow[inv].ok
        /\ pc[inv] = "done"
        /\ outcome[inv].kind = "return"

----------------------------------------------------------------------------
\* Reading a call of getCondition or of the mapper.

FirstCondition(inv) == outcome[inv].value.first
SecondCondition(inv) == outcome[inv].value.second

ClauseTexts ==
    {"FALSE", "?? IN (?)", "?? IS NOT NULL", "?? IS NULL", "?? LIKE ?", "?? = ?"}

NoRepeats(seq) == \A i, j \in 1..Len(seq) : seq[i] = seq[j] => i = j

Declared(seq) == {seq[i] : i \in 1..Len(seq)}

\* out is row restricted to the declared columns.
IsRowRestrictedTo(out, row, columns) ==
    /\ \A i \in 1..Len(out) : out[i].column \in Declared(columns)
    /\ \A c \in Declared(columns) : GetColumn(out, c) = GetColumn(row, c)

\* out is obj restricted to the declared keys.
IsObjectRestrictedTo(out, obj, keys) ==
    /\ \A i \in 1..Len(out) : out[i].key \in Declared(keys)
    /\ \A k \in Declared(keys) : Get(out, k) = Get(obj, k)

----------------------------------------------------------------------------
\* C17: getCondition throws on a predicate without entries; for any other
\* predicate it gives one clause per entry, each one of the builder's
\* clause forms (none of them a clause true of every row), on the column
\* aligned with the entry's key and chosen by the value: "null" gives
\* IS NULL, "not null" gives IS NOT NULL, a non-empty list gives IN over
\* its values, a string with a % gives LIKE, and any other value that is
\* no empty list gives equality.
C17_OneClausePerEntryByShape ==
    \A inv \in Invocations :
        (call[inv].name = "getCondition" /\ pc[inv] = "done") =>
            LET query == call[inv].query
                r == FirstCondition(inv)
            IN  IF Len(query) = 0 THEN r.kind = "raise"
                ELSE /\ r.kind = "return"
                     /\ Len(r.value.clauses) = Len(query)
                     /\ \A i \in 1..Len(query) :
                        LET v == query[i].value
                            clause == r.value.clauses[i]
                            aligned == clause.column = Columns[IndexOf(query[i].key)]
                        IN  /\ clause.text \in ClauseTexts
                            /\ CASE v = String("null") ->
                                      clause.text = "?? IS NULL" /\ aligned
                                 [] v = String("not null") ->
                                      clause.text = "?? IS NOT NULL" /\ aligned
                                 [] v.t = "array" /\ Len(v.items) > 0 ->
                                      /\ clause.text = "?? IN (?)"
                                      /\ aligned
                                      /\ clause.value.items = v.items
                                 [] v.t = "array" /\ Len(v.items) = 0 ->
                                      clause.text = "FALSE"
                                 [] v.t = "string" /\ v.s \in LikePatterns ->
                                      /\ clause.text = "?? LIKE ?"
                                      /\ aligned
                                      /\ clause.value = v
                                 [] OTHER ->
                                      /\ clause.text = "?? = ?"
                                      /\ aligned
                                      /\ clause.value = v

\* C17 witness: a predicate of two entries, one a LIKE pattern on name and
\* one a list on createdAt, has been given its two clauses.
C17_Witness ==
    \E inv \in Invocations :
        /\ call[inv].name = "getCondition"
        /\ pc[inv] = "done"
        /\ Len(call[inv].query) = 2
        /\ call[inv].query[1] = Entry("name", String("%a%"))
        /\ call[inv].query[2].key = "createdAt"
        /\ call[inv].query[2].value.t = "array"
        /\ Len(call[inv].query[2].value.items) > 0
        /\ FirstCondition(inv).kind = "return"

\* C18 as stated: a predicate and a reordering of its entries give the
\* same condition.
C18_ReorderingGivesSameCondition ==
    \A inv \in Invocations :
        (call[inv].name = "getCondition" /\ pc[inv] = "done") =>
            FirstCondition(inv) = SecondCondition(inv)

\* C18: the clauses follow the insertion order of the predicate's entries:
\* the clause at position i is the one of the entry at position i, on the
\* column aligned with its key, so a reordering of the entries gives the
\* same clauses, reordered alike.  Two entries have the same clause only
\* when both hold an empty list, so the two conditions are the same
\* exactly when every entry that changed its position holds an empty list
\* and took the position of another that does.
C18_ClausesFollowInsertionOrder ==
    \A inv \in Invocations :
        (call[inv].name = "getCondition" /\ pc[inv] = "done" /\ Len(call[inv].query) > 0) =>
            LET first == FirstCondition(inv).value.clauses
                second == SecondCondition(inv).value.clauses
                emptyList(e) == e.value.t = "array" /\ Len(e.value.items) = 0
            IN  /\ Len(first) = Len(call[inv].query)
                /\ Len(second) = Len(call[inv].reordered)
                /\ \A i \in 1..Len(first) :
                      first[i].column \in {"", Columns[IndexOf(call[inv].query[i].key)]}
                /\ \A i \in 1..Len(second) : \A j \in 1..Len(first) :
                      call[inv].reordered[i] = call[inv].query[j] => second[i] = first[j]
                /\ \A i, j \in 1..Len(first) :
                      (i # j /\ first[i] = first[j]) =>
                          /\ emptyList(call[inv].query[i])
                          /\ emptyList(call[inv].query[j])
                /\ (FirstCondition(inv) = SecondCondition(inv)) <=>
                      \A i \in 1..Len(first) :
                          \/ call[inv].reordered[i] = call[inv].query[i]
                          \/ /\ emptyList(call[inv].reordered[i])
                             /\ emptyList(call[inv].query[i])

\* C18 witness: two orders of the same two entries gave two conditions
\* that differ.
C18_Witness ==
    \E inv \in Invocations :
        /\ call[inv].name = "getCondition"
        /\ pc[inv] = "done"
        /\ Len(call[inv].query) = 2
        /\ call[inv].reordered = <<call[inv].query[2], call[inv].query[1]>>
        /\ FirstCondition(inv).kind = "return"
        /\ FirstCondition(inv) # SecondCondition(inv)
        /\ SecondCondition(inv).value.clauses
              = <<FirstCondition(inv).value.clauses[2],
                  FirstCondition(inv).value.clauses[1]>>

\* C20 as stated: for any keys and columns of equal length,
\* toRow(toObject(row)) is row restricted to the declared columns and
\* toObject(toRow(obj)) is obj restricted to the declared keys.
C20_RoundTripForAnyBinding ==
    \A inv \in Invocations :
        /\ (call[inv].name = "toRow(toObject)" /\ pc[inv] = "done") =>
              IsRowRestrictedTo(outcome[inv].value.row, call[inv].row, call[inv].columns)
        /\ (call[inv].name = "toObject(toRow)" /\ pc[inv] = "done") =>
              IsObjectRestrictedTo(outcome[inv].value.obj, call[inv].obj, call[inv].keys)

\* C20: for keys and columns of equal length, toRow(toObject(row)) is row
\* restricted to the declared columns when no key is repeated, and
\* toObject(toRow(obj)) is obj restricted to the declared keys when no
\* column is repeated.
C20_RoundTripWithoutRepeats ==
    \A inv \in Invocations :
        /\ (call[inv].name = "toRow(toObject)" /\ pc[inv] = "done" /\ NoRepeats(call[inv].keys)) =>
              IsRowRestrictedTo(outcome[inv].value.row, call[inv].row, call[inv].columns)
        /\ (call[inv].name = "toObject(toRow)" /\ pc[inv] = "done" /\ NoRepeats(call[inv].columns)) =>
              IsObjectRestrictedTo(outcome[inv].value.obj, call[inv].obj, call[inv].keys)

\* C20 witness: a row with two declared columns of different values and an
\* undeclared one went through a mapper of two distinct keys and columns.
C20_Witness ==
    \E inv \in Invocations :
        /\ call[inv].name = "toRow(toObject)"
        /\ pc[inv] = "done"
        /\ Len(call[inv].keys) = 2
        /\ NoRepeats(call[inv].keys)
        /\ NoRepeats(call[inv].columns)
        /\ Len(call[inv].row) = 3
        /\ GetColumn(call[inv].row, "x") # GetColumn(call[inv].row, "y")
        /\ Len(outcome[inv].value.row) = 2

----------------------------------------------------------------------------
\* C21 as stated: for any mapper, toPartialRow(obj) has no entry for the
\* column of a key that obj lacks or holds undefined for, and for every
\* other declared key, falsy values included, the entry toRow(obj) has
\* for its column.
C21_PartialRowMatchesRowForAnyBinding ==
    \A inv \in Invocations :
        (call[inv].name = "toPartialRow" /\ pc[inv] = "done") =>
            LET partial == outcome[inv].value.partial
                full == outcome[inv].value.full
            IN  \A i \in 1..Len(call[inv].keys) :
                  LET v == Get(call[inv].obj, call[inv].keys[i])
                      present == \E j \in 1..Len(partial) :
                                    partial[j].column = call[inv].columns[i]
                  IN  IF v.t = "undefined" THEN ~present
                      ELSE /\ present
                           /\ GetColumn(partial, call[inv].columns[i])
                                = GetColumn(full, call[inv].columns[i])

\* C21 amended: toPartialRow(obj) has entries for declared columns only,
\* and one for the column of every declared key that obj holds a value
\* for, falsy values included.  For a mapper without a repeated column it
\* has no entry for the column of a key that obj lacks or holds undefined
\* for, and its entry for every other key is the key's value, which is
\* the entry toRow(obj) has for that column.
C21_PartialRowSkipsOnlyAbsent ==
    \A inv \in Invocations :
        (call[inv].name = "toPartialRow" /\ pc[inv] = "done") =>
            LET partial == outcome[inv].value.partial
                full == outcome[inv].value.full
            IN  /\ \A i \in 1..Len(partial) : partial[i].column \in Declared(call[inv].columns)
                /\ \A i \in 1..Len(call[inv].keys) :
                      LET v == Get(call[inv].obj, call[inv].keys[i])
                          present == \E j \in 1..Len(partial) :
                                        partial[j].column = call[inv].columns[i]
                      IN  /\ v.t # "undefined" => present
                          /\ NoRepeats(call[inv].columns) =>
                                IF v.t = "undefined" THEN ~present
                                ELSE /\ GetColumn(partial, call[inv].columns[i]) = v
                                     /\ GetColumn(partial, call[inv].columns[i])
                                          = GetColumn(full, call[inv].columns[i])

\* C21 witness: of two declared keys one holds 0 and the other is absent;
\* the partial row has the one entry of the first.
C21_Witness ==
    \E inv \in Invocations :
        /\ call[inv].name = "toPartialRow"
        /\ pc[inv] = "done"
        /\ call[inv].keys = <<"a", "b">>
        /\ call[inv].columns = <<"x", "y">>
        /\ Get(call[inv].obj, "a") = Number("0")
        /\ Get(call[inv].obj, "b") = Undefined
        /\ outcome[inv].value.partial = <<Cell("x", Number("0"))>>

----------------------------------------------------------------------------
\* C22: building the mapper from keys and columns of different lengths
\* fails: transfers, _crudPackage without transfers of its own and
\* crudPackage throw "keys and columns length must be same" and return
\* neither a mapper nor a facade, so no operation is ever started.
C22_LengthMismatchFailsConstruction ==
    (/\ pc[Package] = "constructed"
     /\ \/ call[Package].name \in {"transfers", "crudPackage"}
        \/ (call[Package].name = "_crudPackage" /\ ~call[Package].hasTransfers)
     /\ Len(call[Package].keys) # Len(NewColumns(call[Package]))) =>
        /\ outcome[Package].kind = "raise"
        /\ outcome[Package].error.message = "keys and columns length must be same"
        /\ ~Has(log[Package], "operation")
        /\ pc["b"] = "idle"

\* C22 witness: crudPackage was given two keys and one column and threw.
C22_Witness ==
    /\ pc[Package] = "constructed"
    /\ call[Package].name = "crudPackage"
    /\ call[Package].hasColumns
    /\ Len(call[Package].keys) = 2
    /\ Len(call[Package].columns) = 1
    /\ outcome[Package].kind = "raise"

\* C28: when crudPackage is called with validateCheck = true and the
\* validation query fails, crudPackage raises and returns no facade, and
\* no operation of a facade starts before the validation has settled.
C28_ValidationFailureReachesCaller ==
    (call[Package].name = "crudPackage"
        /\ call[Package].validateCheck = "true") =>
        /\ UowFailed("a") => outcome[Package].kind = "raise"
        /\ Has(log[Package], "operation") => pc["a"] \in {"done", "idle"}

----------------------------------------------------------------------------
\* C23: with throwError = true, an error of the unit of work that the
\* driver did not report reaches the caller as that same error, message
\* intact (the rollback, where one is awaited, having succeeded).
C23_OtherErrorsReachCallerUnwrapped ==
    \A inv \in Invocations :
        (/\ pc[inv] = "done"
         /\ Opt(inv).throwError = "true"
         /\ UowFailed(inv)
         /\ ~uow[inv].error.driver
         /\ ~Has(log[inv], "rollbackFail")) =>
            outcome[inv] = Raise(uow[inv].error)

\* C24: update called with a setter without a defined value and
\* allowAffectAll not true executes no statement and raises, whatever the
\* predicate.
C24_EmptySetterRaisesWithoutStatement ==
    \A inv \in Invocations :
        (/\ call[inv].name = "update"
         /\ toPartialRow(removeUndefined(call[inv].setter)) = <<>>
         /\ call[inv].allow # "true") =>
            /\ uow[inv].stmts = <<>>
            /\ (pc[inv] = "done" => outcome[inv].kind = "raise")

\* C25: an invocation whose beginTransaction failed has released its
\* connection exactly once, has not invoked the unit of work, and raises
\* with throwError = true and returns null with throwError = false.
C25_BeginFailureStillReleases ==
    \A inv \in Invocations :
        (pc[inv] = "done" /\ Has(log[inv], "beginFail")) =>
            /\ Count(log[inv], "release") = 1
            /\ ~uow[inv].ran
            /\ (Opt(inv).throwError = "true" => outcome[inv].kind = "raise")
            /\ (Opt(inv).throwError = "false" => outcome[inv] = Return(Null))

\* C26: with invocations that overlap, the pool never lends more than its
\* PoolSize connections, every invocation between its acquire and its
\* release holds one of the connections lent, and when every invocation
\* has finished all PoolSize connections are back in the pool.
C26_PoolIsWholeBetweenInvocations ==
    /\ free \in 0..PoolSize
    /\ Cardinality({inv \in Invocations : Holds(inv)}) <= PoolSize - free
    /\ ((\A inv \in Invocations : pc[inv] = "idle") => free = PoolSize)

\* C27: a predicate all of whose entries hold undefined is an empty
\* predicate: find executes the SELECT without WHERE and gives every row
\* of the table; update and delete without allowAffectAll = true execute
\* nothing and raise; and no statement of any call has a clause for an
\* entry that holds undefined.
C27_UndefinedEntriesAreNoEntries ==
    \A inv \in Invocations :
        /\ (call[inv].name \in {"find", "findOne", "update", "delete"}
                /\ Len(call[inv].query) > 0
                /\ \A i \in 1..Len(call[inv].query) : call[inv].query[i].value = Undefined) =>
              /\ \A i \in 1..Len(uow[inv].stmts) : uow[inv].stmts[i].where = <<>>
              /\ (call[inv].name \in {"find", "findOne"} =>
                    /\ (uow[inv].ran => Len(uow[inv].stmts) = 1)
                    /\ (uow[inv].ok =>
                        Len(uow[inv].value.items) = Len(uow[inv].seen)))
              /\ ((call[inv].name \in {"update", "delete"} /\ call[inv].allow # "true") =>
                    /\ uow[inv].stmts = <<>>
                    /\ (pc[inv] = "done" => outcome[inv].kind = "raise"))
        /\ (call[inv].name \in {"find", "findOne", "update", "delete"}) =>
              \A i \in 1..Len(uow[inv].stmts) :
                  /\ Len(uow[inv].stmts[i].where)
                        <= Cardinality({j \in 1..Len(call[inv].query) :
                                           call[inv].query[j].value # Undefined})
                  /\ \A j \in 1..Len(uow[inv].stmts[i].where) :
                        uow[inv].stmts[i].where[j].text = "?? = ?"
                            => uow[inv].stmts[i].where[j].value # Undefined

\* C27 witness: find with a predicate of two entries that hold undefined
\* has returned both rows of a table of two.
C27_Witness ==
    \E inv \in Invocations :
        /\ call[inv].name = "find"
        /\ Len(call[inv].query) = 2
        /\ \A i \in 1..Len(call[inv].query) : call[inv].query[i].value = Undefined
        /\ Len(uow[inv].seen) = 2
        /\ pc[inv] = "done"
        /\ outcome[inv].kind = "return"
        /\ Len(outcome[inv].value.items) = 2

\* C29: no line of the diagnostics output shows the pool's options with
\* the password, so the output is the same under two pools that differ in
\* the password only.
C29_DiagnosticsHideThePassword ==
    \A inv \in Invocations :
        \A i \in 1..Len(diag[inv]) :
            \A password \in Passwords : diag[inv][i] # Inspect(PoolOption(password))

====
